---- MODULE Spec2Model ----
(***************************************************************************)
(* Model of src/src/events.ts (CSV-to-ICS): parseFlexibleDate,             *)
(* validateTimezone, setEventStart, setEventEnd and generateEvents.        *)
(*                                                                         *)
(* Representation.                                                         *)
(*  - A JavaScript string that the code inspects character by character    *)
(*    (dates, times) is a sequence of one-character strings, so the        *)
(*    regular expressions, split, trim, toLowerCase and parseInt are       *)
(*    computed on the characters.  Subject, UID and Time Zone are only     *)
(*    tested for emptiness and passed through: they are TLA+ strings.      *)
(*  - A JavaScript number that may be NaN is [nan |-> BOOLEAN, v |-> Int]. *)
(*  - A Date is [nan |-> BOOLEAN, t |-> Int], t its time value in SECONDS  *)
(*    (every time value the code builds is a whole number of seconds, so   *)
(*    getTime() = 1000 * t).  Local time is a fixed-offset zone without    *)
(*    daylight-saving transitions.                                         *)
(*  - A call's outcome is [ok |-> TRUE, value, warn] when it returns and   *)
(*    [ok |-> FALSE, msg, args] when it throws: msg is the sequence of the *)
(*    message's literal fragments, outermost wrapper first, args the texts *)
(*    interpolated into it.                                                *)
(***************************************************************************)
EXTENDS Integers, Sequences, FiniteSets, TLC

VARIABLES parsedCsv, i, events, errors, warnings, pc, call, ret

vars == <<parsedCsv, i, events, errors, warnings, pc, call, ret>>

(***************************************************************************)
(* Characters and strings                                                  *)
(***************************************************************************)
Digits == <<"0", "1", "2", "3", "4", "5", "6", "7", "8", "9">>

IsDigit(c) == \E k \in 1..10 : Digits[k] = c

DigitVal(c) == (CHOOSE k \in 1..10 : Digits[k] = c) - 1

\* white space, as trim and parseInt skip it: the inputs contain no other
\* white space than the space
IsSpace(c) == c = " "

\* the upper-case letters that occur in the inputs, and their lower case
Upper == <<"A", "D", "L", "Y">>

Lower == <<"a", "d", "l", "y">>

\* String.prototype.toLowerCase, one character
LowerChar(c) == IF \E k \in 1..Len(Upper) : Upper[k] = c
                THEN Lower[CHOOSE k \in 1..Len(Upper) : Upper[k] = c]
                ELSE c

toLowerCase(s) == [k \in 1..Len(s) |-> LowerChar(s[k])]

\* String.prototype.trim
trim(s) ==
  IF \A k \in 1..Len(s) : IsSpace(s[k]) THEN <<>>
  ELSE LET a == CHOOSE k \in 1..Len(s) :
                  ~IsSpace(s[k]) /\ \A j \in 1..(k - 1) : IsSpace(s[j])
           b == CHOOSE k \in 1..Len(s) :
                  ~IsSpace(s[k]) /\ \A j \in (k + 1)..Len(s) : IsSpace(s[j])
       IN  SubSeq(s, a, b)

\* JavaScript truthiness of a string: non-empty
Truthy(s) == Len(s) > 0

AllDigits(s, a, b) == \A k \in a..b : IsDigit(s[k])

RECURSIVE DigitsValue(_)
DigitsValue(s) ==
  IF Len(s) = 0 THEN 0
  ELSE 10 * DigitsValue(SubSeq(s, 1, Len(s) - 1)) + DigitVal(s[Len(s)])

Num(v) == [nan |-> FALSE, v |-> v]

NaN == [nan |-> TRUE, v |-> 0]

\* s without its leading white space
TrimStart(s) ==
  IF \A k \in 1..Len(s) : IsSpace(s[k]) THEN <<>>
  ELSE SubSeq(s, CHOOSE k \in 1..Len(s) :
                    ~IsSpace(s[k]) /\ \A j \in 1..(k - 1) : IsSpace(s[j]),
              Len(s))

\* length of the longest prefix of u made of decimal digits
DigitRun(u) ==
  CHOOSE k \in 0..Len(u) : AllDigits(u, 1, k) /\ (k < Len(u) => ~IsDigit(u[k + 1]))

\* the number written by the first n characters of u, NaN when n = 0
DigitsPrefix(u, n) == IF n = 0 THEN NaN ELSE Num(DigitsValue(SubSeq(u, 1, n)))

Negate(x) == IF x.nan THEN NaN ELSE Num(0 - x.v)

\* t has no leading white space: an optional sign, then the digits
ParseSigned(t) ==
  IF Len(t) > 0 /\ t[1] = "-"
  THEN Negate(DigitsPrefix(SubSeq(t, 2, Len(t)), DigitRun(SubSeq(t, 2, Len(t)))))
  ELSE IF Len(t) > 0 /\ t[1] = "+"
  THEN DigitsPrefix(SubSeq(t, 2, Len(t)), DigitRun(SubSeq(t, 2, Len(t))))
  ELSE DigitsPrefix(t, DigitRun(t))

\* parseInt(s, 10): leading white space, an optional sign, then the longest
\* run of decimal digits; NaN when that run is empty
parseInt(s) == ParseSigned(TrimStart(s))

\* String.prototype.split(sep), sep one character
RECURSIVE split(_, _)
split(s, sep) ==
  IF \A k \in 1..Len(s) : s[k] # sep THEN <<s>>
  ELSE LET p == CHOOSE k \in 1..Len(s) :
                  s[k] = sep /\ \A j \in 1..(k - 1) : s[j] # sep
       IN  <<SubSeq(s, 1, p - 1)>> \o split(SubSeq(s, p + 1, Len(s)), sep)

\* timeRegex.test(s): /^\d{2}:\d{2}(:\d{2})?$/
timeRegex(s) ==
  /\ Len(s) \in {5, 8}
  /\ AllDigits(s, 1, 2) /\ s[3] = ":" /\ AllDigits(s, 4, 5)
  /\ Len(s) = 8 => (s[6] = ":" /\ AllDigits(s, 7, 8))

(***************************************************************************)
(* Date: the ECMAScript time-value arithmetic, in seconds                  *)
(***************************************************************************)
\* day number of year-month-1 (month 1..12) in the proleptic Gregorian
\* calendar, 1970-01-01 being day 0
DaysFromCivil(y, m) ==
  LET yy  == IF m <= 2 THEN y - 1 ELSE y
      era == yy \div 400
      yoe == yy - era * 400
      mp  == IF m > 2 THEN m - 3 ELSE m + 9
      doy == (153 * mp + 2) \div 5
      doe == yoe * 365 + (yoe \div 4) - (yoe \div 100) + doy
  IN  era * 146097 + doe - 719468

\* ECMAScript MakeDay(year, month, date): the month is 0-based and carries
\* into the year, the date is added as an offset in days
MakeDay(year, month, date) ==
  DaysFromCivil(year + (month \div 12), (month % 12) + 1) + date - 1

\* new Date(year, month, day, hours, minutes, seconds); a year 0..99 is 1900 + year
NewDate(year, month, day, hours, minutes, seconds) ==
  LET yr == IF year >= 0 /\ year <= 99 THEN 1900 + year ELSE year
  IN  [nan |-> FALSE,
       t   |-> MakeDay(yr, month, day) * (24 * 60 * 60)
               + hours * (60 * 60) + minutes * 60 + seconds]

InvalidDate == [nan |-> TRUE, t |-> 0]

\* civil date of a day number
CivilFromDays(z) ==
  LET zz  == z + 719468
      era == zz \div 146097
      doe == zz - era * 146097
      yoe == (doe - (doe \div 1460) + (doe \div 36524) - (doe \div 146096)) \div 365
      doy == doe - (365 * yoe + (yoe \div 4) - (yoe \div 100))
      mp  == (5 * doy + 2) \div 153
      d   == doy - ((153 * mp + 2) \div 5) + 1
      m   == IF mp < 10 THEN mp + 3 ELSE mp - 9
  IN  [year |-> IF m <= 2 THEN yoe + era * 400 + 1 ELSE yoe + era * 400,
       month |-> m - 1, day |-> d]

getFullYear(date) == CivilFromDays(date.t \div (24 * 60 * 60)).year

getMonth(date) == CivilFromDays(date.t \div (24 * 60 * 60)).month

getDate(date) == CivilFromDays(date.t \div (24 * 60 * 60)).day

getHours(date) == (date.t % (24 * 60 * 60)) \div (60 * 60)

getMinutes(date) == (date.t % (60 * 60)) \div 60

getSeconds(date) == date.t % 60

\* a < b on time values: false when either is NaN
TimeLess(a, b) == ~a.nan /\ ~b.nan /\ a.t < b.t

(***************************************************************************)
(* Outcomes of a call                                                      *)
(***************************************************************************)
Return(v) == [ok |-> TRUE, value |-> v, warn |-> FALSE]

ReturnWarned(v) == [ok |-> TRUE, value |-> v, warn |-> TRUE]

Throw(msg, args) == [ok |-> FALSE, msg |-> msg, args |-> args]

\* catch (e) { throw new Error(prefix + e.message) }
Rethrow(prefix, e) == [ok |-> FALSE, msg |-> <<prefix>> \o e.msg, args |-> e.args]

MsgInvalidMonthOrDay == "Invalid month or day value in date: \"${dateStr}\""

MsgUnsupportedFormat ==
  "Unsupported date format: \"${dateStr}\". Expected YYYY-MM-DD, MM/DD/YYYY, DD/MM/YYYY, or YYYY/MM/DD."

MsgInvalidTimezone ==
  "The timezone \"${timezone}\" is not a valid IANA Time Zone identifier. Error: ${e.message}"

MsgStartDateEmpty == "'Start Date' cannot be empty or null."

MsgStartDatePrefix == "Error parsing 'Start Date' format: "

MsgAllDayInvalidDate ==
  "Date components form an invalid date for All Day event (e.g., Feb 30th): ${startDateStr}"

MsgStartTimeFormat ==
  "'Start Time' format is invalid: \"${startTimeStr}\". Expected HH:MM or HH:MM:SS, or \"All day\"."

MsgInvalidStartTimeComponents == "Invalid time components in '${startTimeStr}'."

MsgStartNotDate == "The 'start' parameter must be a valid Date object."

MsgEndDatePrefix == "Error parsing 'End Date' format: "

MsgInvalidEndTimeComponents == "Invalid time components in '${endTimeStr}'."

MsgInvalidEndDate ==
  "Date components form an invalid end date (e.g., Feb 30th): ${endDateStr} ${endTimeStr}"

MsgEndBeforeStart == "End date and time cannot be before the start date and time."

MsgExplicitEndPrefix == "Error processing explicit end date and time: "

MsgEndDateNoTimePrefix == "Error processing end date without time: "

MsgNegativeDuration ==
  "Invalid duration value from 'End Time' (${endTimeStr}). Must be a non-negative number of minutes."

(***************************************************************************)
(* parseFlexibleDate                                                       *)
(***************************************************************************)
\* /^(\d{4})-(\d{2})-(\d{2})$/
MatchYMDDash(s) ==
  /\ Len(s) = 10
  /\ AllDigits(s, 1, 4) /\ s[5] = "-" /\ AllDigits(s, 6, 7)
  /\ s[8] = "-" /\ AllDigits(s, 9, 10)

\* the slash-separated groups g are three, of n1, n2 and n3 digits
SlashGroups(g, n1, n2, n3) ==
  /\ Len(g) = 3
  /\ Len(g[1]) \in n1 /\ Len(g[2]) \in n2 /\ Len(g[3]) \in n3
  /\ \A k \in 1..3 : AllDigits(g[k], 1, Len(g[k]))

\* /^(\d{4})\/(\d{1,2})\/(\d{1,2})$/
MatchYMDSlash(s) == SlashGroups(split(s, "/"), {4}, {1, 2}, {1, 2})

\* mutant: the year group may also have two digits
MatchDMYSlashShortYear(s) == SlashGroups(split(s, "/"), {1, 2}, {1, 2}, {2, 4})

\* /^(\d{1,2})\/(\d{1,2})\/(\d{4})$/
MatchDMYSlash(s) == SlashGroups(split(s, "/"), {1, 2}, {1, 2}, {4})

CalendarDate(year, month, day) == [year |-> year, month |-> month, day |-> day]

\* if (month < 0 || month > 11 || day < 1 || day > 31) throw ...; return {year, month, day}
RangeChecked(year, month, day, dateStr) ==
  IF month < 0 \/ month > 11 \/ day < 1 \/ day > 31
  THEN Throw(<<MsgInvalidMonthOrDay>>, <<dateStr>>)
  ELSE Return(CalendarDate(year, month, day))

\* mutant: the first group is always taken as the month
DisambiguatedMonthFirst(mm, dd, yyyy, dateStr) == RangeChecked(yyyy, mm - 1, dd, dateStr)

\* the heuristic of the D(D)/D(D)/YYYY shape
Disambiguated(mm, dd, yyyy, dateStr) ==
  IF mm > 12 /\ dd <= 12
  THEN RangeChecked(yyyy, dd - 1, mm, dateStr)
  ELSE RangeChecked(yyyy, mm - 1, dd, dateStr)

\* mutant: the YYYY/MM/DD branch returns its components without the range check
ParseYMDSlashUnchecked(g, dateStr) ==
  Return(CalendarDate(parseInt(g[1]).v, parseInt(g[2]).v - 1, parseInt(g[3]).v))

ParseYMDSlash(g, dateStr) ==
  RangeChecked(parseInt(g[1]).v, parseInt(g[2]).v - 1, parseInt(g[3]).v, dateStr)

ParseDMYSlash(g, dateStr) ==
  Disambiguated(parseInt(g[1]).v, parseInt(g[2]).v, parseInt(g[3]).v, dateStr)

\* mutant: the YYYY-MM-DD branch range-checks month and day like the other two
parseFlexibleDateDashChecked(dateStr) ==
  IF MatchYMDDash(dateStr)
  THEN RangeChecked(parseInt(SubSeq(dateStr, 1, 4)).v,
                    parseInt(SubSeq(dateStr, 6, 7)).v - 1,
                    parseInt(SubSeq(dateStr, 9, 10)).v, dateStr)
  ELSE IF MatchYMDSlash(dateStr) THEN ParseYMDSlash(split(dateStr, "/"), dateStr)
  ELSE IF MatchDMYSlash(dateStr) THEN ParseDMYSlash(split(dateStr, "/"), dateStr)
  ELSE Throw(<<MsgUnsupportedFormat>>, <<dateStr>>)

parseFlexibleDate(dateStr) ==
  IF MatchYMDDash(dateStr)
  THEN Return(CalendarDate(parseInt(SubSeq(dateStr, 1, 4)).v,
                           parseInt(SubSeq(dateStr, 6, 7)).v - 1,
                           parseInt(SubSeq(dateStr, 9, 10)).v))
  ELSE IF MatchYMDSlash(dateStr) THEN ParseYMDSlash(split(dateStr, "/"), dateStr)
  ELSE IF MatchDMYSlash(dateStr) THEN ParseDMYSlash(split(dateStr, "/"), dateStr)
  ELSE Throw(<<MsgUnsupportedFormat>>, <<dateStr>>)

(***************************************************************************)
(* validateTimezone                                                        *)
(***************************************************************************)
\* the identifiers the platform's Intl.DateTimeFormat accepts, among those
\* the rows use
IanaZones == {"America/Santiago", "Europe/London"}

validateTimezone(timezone) ==
  IF timezone \in IanaZones THEN Return(TRUE)
  ELSE Throw(<<MsgInvalidTimezone>>, <<timezone>>)

(***************************************************************************)
(* setEventStart                                                           *)
(***************************************************************************)
\* const [hoursStr, minutesStr, secondsStr = "00"] = parts, each through parseInt
TimePartsOf(parts) ==
  [hours   |-> parseInt(parts[1]),
   minutes |-> parseInt(parts[2]),
   seconds |-> parseInt(IF Len(parts) >= 3 THEN parts[3] ELSE <<"0", "0">>)]

\* hours, minutes and seconds of a text that matches timeRegex
TimeParts(timeStr) == TimePartsOf(split(timeStr, ":"))

\* isNaN(x) || x < 0 || x > max
OutOfRange(x, max) == x.nan \/ x.v < 0 \/ x.v > max

\* mutant: an hour of 24 passes the range check
InvalidTimePartsHour24(p) ==
  OutOfRange(p.hours, 24) \/ OutOfRange(p.minutes, 59) \/ OutOfRange(p.seconds, 59)

InvalidTimeParts(p) ==
  OutOfRange(p.hours, 23) \/ OutOfRange(p.minutes, 59) \/ OutOfRange(p.seconds, 59)

\* the all-day branch: date is new Date(year, month, day, 0, 0, 0)
AllDayStart(date, startDateStr) ==
  IF date.nan THEN Throw(<<MsgAllDayInvalidDate>>, <<startDateStr>>) ELSE Return(date)

\* the timed branch once Start Time matches timeRegex: p its parsed components
TimedStart(ymd, p, startTimeStr) ==
  IF InvalidTimeParts(p)
  THEN Throw(<<MsgInvalidStartTimeComponents>>, <<startTimeStr>>)
  ELSE Return(NewDate(ymd.year, ymd.month, ymd.day, p.hours.v, p.minutes.v, p.seconds.v))

\* setEventStart after the Start Date was parsed into ymd
StartAt(ymd, startDateStr, startTimeStr, isAllDay) ==
  IF isAllDay
  THEN AllDayStart(NewDate(ymd.year, ymd.month, ymd.day, 0, 0, 0), startDateStr)
  ELSE IF ~timeRegex(startTimeStr)
  THEN Throw(<<MsgStartTimeFormat>>, <<startTimeStr>>)
  ELSE TimedStart(ymd, TimeParts(startTimeStr), startTimeStr)

\* setEventStart after parseFlexibleDate(startDateStr) gave parsed
StartFromParsed(parsed, startDateStr, startTimeStr, isAllDay) ==
  IF ~parsed.ok THEN Rethrow(MsgStartDatePrefix, parsed)
  ELSE StartAt(parsed.value, startDateStr, startTimeStr, isAllDay)

setEventStart(startDateStr, startTimeStr, isAllDay) ==
  IF ~Truthy(startDateStr) THEN Throw(<<MsgStartDateEmpty>>, <<>>)
  ELSE StartFromParsed(parseFlexibleDate(startDateStr), startDateStr, startTimeStr, isAllDay)

(***************************************************************************)
(* setEventEnd                                                             *)
(***************************************************************************)
defaultDurationMinutes == 60

\* mutant: the minutes are added to the clock of start's own day, without
\* carrying into the next day
AddMinutesSameDay(start, minutes) ==
  IF minutes.nan THEN InvalidDate
  ELSE [nan |-> FALSE,
        t   |-> (start.t \div (24 * 60 * 60)) * (24 * 60 * 60)
                + (((start.t % (24 * 60 * 60)) + minutes.v * 60) % (24 * 60 * 60))]

\* new Date(start.getTime() + minutes * 60 * 1000), minutes possibly NaN
AddMinutes(start, minutes) ==
  IF minutes.nan THEN InvalidDate ELSE [nan |-> FALSE, t |-> start.t + minutes.v * 60]

\* x || 0
OrZero(x) == IF x.nan THEN 0 ELSE x.v

\* mutant: an end equal to start is rejected too (<= for <)
ExplicitEndCheckedStrict(endDateTime, endDateStr, endTimeStr, start) ==
  IF endDateTime.nan
  THEN Throw(<<MsgExplicitEndPrefix, MsgInvalidEndDate>>, <<endDateStr, endTimeStr>>)
  ELSE IF ~endDateTime.nan /\ ~start.nan /\ endDateTime.t <= start.t
  THEN Throw(<<MsgExplicitEndPrefix, MsgEndBeforeStart>>, <<>>)
  ELSE Return(endDateTime)

\* the checks of the explicit branch on the constructed endDateTime
ExplicitEndChecked(endDateTime, endDateStr, endTimeStr, start) ==
  IF endDateTime.nan
  THEN Throw(<<MsgExplicitEndPrefix, MsgInvalidEndDate>>, <<endDateStr, endTimeStr>>)
  ELSE IF TimeLess(endDateTime, start)
  THEN Throw(<<MsgExplicitEndPrefix, MsgEndBeforeStart>>, <<>>)
  ELSE Return(endDateTime)

\* the explicit branch once End Time is parsed into p
ExplicitEndAt(p, endDateStr, endTimeStr, start, ymd) ==
  IF InvalidTimeParts(p)
  THEN Throw(<<MsgInvalidEndTimeComponents>>, <<endTimeStr>>)
  ELSE ExplicitEndChecked(NewDate(ymd.year, ymd.month, ymd.day,
                                  p.hours.v, p.minutes.v, p.seconds.v),
                          endDateStr, endTimeStr, start)

\* "Specific end date and time": End Time matches timeRegex
ExplicitEnd(endDateStr, endTimeStr, start, ymd) ==
  ExplicitEndAt(TimeParts(endTimeStr), endDateStr, endTimeStr, start, ymd)

\* the ordering check of the branch "specific end date, no time"
EndDateWithoutTimeChecked(endDateTime, start) ==
  IF TimeLess(endDateTime, start)
  THEN Throw(<<MsgEndDateNoTimePrefix, MsgEndBeforeStart>>, <<>>)
  ELSE Return(endDateTime)

\* mutant: the sign of the duration is not checked
EndDateWithMinutesUnchecked(durationMinutes, endTimeStr, start, ymd) ==
  EndDateWithoutTimeChecked(NewDate(ymd.year, ymd.month, ymd.day, 0, durationMinutes, 0),
                            start)

EndDateWithMinutes(durationMinutes, endTimeStr, start, ymd) ==
  IF durationMinutes < 0
  THEN Throw(<<MsgNegativeDuration>>, <<endTimeStr>>)
  ELSE EndDateWithoutTimeChecked(NewDate(ymd.year, ymd.month, ymd.day, 0, durationMinutes, 0),
                                 start)

\* "specific end date, no time": End Date non-empty, End Time no clock time;
\* durationMinutes = parseInt(endTimeStr, 10) || 0
EndDateWithoutTime(endTimeStr, start, ymd) ==
  EndDateWithMinutes(OrZero(parseInt(endTimeStr)), endTimeStr, start, ymd)

DurationOf(durationMinutes, endTimeStr, start) ==
  IF ~durationMinutes.nan /\ durationMinutes.v < 0
  THEN Throw(<<MsgNegativeDuration>>, <<endTimeStr>>)
  ELSE Return(AddMinutes(start, durationMinutes))

\* the duration branch: End Date empty, End Time non-empty and no clock time
DurationEnd(endTimeStr, start) == DurationOf(parseInt(endTimeStr), endTimeStr, start)

\* the last else: the default duration, with console.warn
DefaultEnd(start) == ReturnWarned(AddMinutes(start, Num(defaultDurationMinutes)))

\* mutant: the all-day end is the start of the End Date itself
AllDayEndSameDay(ymd) == Return(NewDate(ymd.year, ymd.month, ymd.day, 0, 0, 0))

\* "All day, valid date": start of the day after the parsed End Date
AllDayEndOfDate(ymd) == Return(NewDate(ymd.year, ymd.month, ymd.day + 1, 0, 0, 0))

\* "All day event, no explicit end date or time": start of the day after start
AllDayNextDay(start) ==
  Return(NewDate(getFullYear(start), getMonth(start), getDate(start) + 1, 0, 0, 0))

\* catch around parseFlexibleDate(endDateStr)
EndDateParsed(parsed) == IF parsed.ok THEN parsed ELSE Rethrow(MsgEndDatePrefix, parsed)

\* mutant: a blank End Date stands for the day after start
EndDatePartsNextDay(endDateStr, endTimeStr, start) ==
  IF trim(endDateStr) = <<>> /\ Truthy(endTimeStr)
  THEN Return(CalendarDate(getFullYear(start), getMonth(start), getDate(start) + 1))
  ELSE EndDateParsed(parseFlexibleDate(endDateStr))

\* year, month and day the end is built from: those of start when End Date is
\* blank and End Time is non-empty, else parseFlexibleDate(endDateStr)
EndDateParts(endDateStr, endTimeStr, start) ==
  IF trim(endDateStr) = <<>> /\ Truthy(endTimeStr)
  THEN Return(CalendarDate(getFullYear(start), getMonth(start), getDate(start)))
  ELSE EndDateParsed(parseFlexibleDate(endDateStr))

\* the branches that follow the parsing of the end's year, month and day
EndBranches(ymd, endDateStr, endTimeStr, start, isAllDayEvent) ==
  IF isAllDayEvent /\ Truthy(endDateStr)
  THEN AllDayEndOfDate(ymd)
  ELSE IF Truthy(endTimeStr) /\ timeRegex(endTimeStr)
  THEN ExplicitEnd(endDateStr, endTimeStr, start, ymd)
  ELSE IF Truthy(endDateStr) /\ ~timeRegex(endTimeStr)
  THEN EndDateWithoutTime(endTimeStr, start, ymd)
  ELSE IF ~Truthy(endDateStr) /\ Truthy(endTimeStr) /\ ~timeRegex(endTimeStr)
  THEN DurationEnd(endTimeStr, start)
  ELSE DefaultEnd(start)

EndFromParts(parts, endDateStr, endTimeStr, start, isAllDayEvent) ==
  IF ~parts.ok THEN parts
  ELSE EndBranches(parts.value, endDateStr, endTimeStr, start, isAllDayEvent)

setEventEnd(endDateStr, endTimeStr, start, isAllDayEvent) ==
  IF start.nan THEN Throw(<<MsgStartNotDate>>, <<>>)
  ELSE IF isAllDayEvent /\ ~Truthy(endDateStr) /\ ~Truthy(endTimeStr)
  THEN AllDayNextDay(start)
  ELSE EndFromParts(EndDateParts(endDateStr, endTimeStr, start),
                    endDateStr, endTimeStr, start, isAllDayEvent)

(***************************************************************************)
(* generateEvents: the body of the try block for one row                   *)
(***************************************************************************)
AllDayText == <<"a", "l", "l", " ", "d", "a", "y">>

\* mutant: only the Start Time decides
IsAllDayStartOnly(row) ==
  \/ toLowerCase(row.StartTime) = AllDayText
  \/ trim(row.StartTime) = <<>>

IsAllDay(row) ==
  \/ toLowerCase(row.StartTime) = AllDayText
  \/ trim(row.StartTime) = <<>>
  \/ toLowerCase(row.EndTime) = AllDayText

\* mutant: with a Time Zone the start is moved by an hour
ICalEventShifted(row, start, end, isAllDay) ==
  [start |-> IF row.TimeZone # "" THEN [start EXCEPT !.t = @ + 60 * 60] ELSE start,
   end |-> end, summary |-> row.Subject, id |-> row.UID,
   timezone |-> row.TimeZone, allDay |-> isAllDay]

\* new ICalEvent({start, end, summary, id, timezone, allDay, ...}, calendar): the
\* descriptor handed to the calendar library
ICalEvent(row, start, end, isAllDay) ==
  [start |-> start, end |-> end, summary |-> row.Subject, id |-> row.UID,
   timezone |-> row.TimeZone, allDay |-> isAllDay]

\* mutant: the timezone is never validated
TimezoneNeverChecked(timezone) == Return(TRUE)

\* if (timezone) validateTimezone(timezone)
TimezoneChecked(timezone) ==
  IF timezone # "" THEN validateTimezone(timezone) ELSE Return(TRUE)

\* the try block from the timezone check on: start and end are resolved
TryEvent(row, isAllDay, start, end, tz) ==
  IF ~tz.ok THEN tz
  ELSE [ok |-> TRUE, value |-> ICalEvent(row, start, end.value, isAllDay),
        warn |-> end.warn]

\* mutant: the timezone is validated before the outcome of setEventEnd is looked at
TryEndZoneFirst(row, isAllDay, start, end) ==
  IF ~TimezoneChecked(row.TimeZone).ok THEN TimezoneChecked(row.TimeZone)
  ELSE IF ~end.ok THEN end
  ELSE TryEvent(row, isAllDay, start, end, TimezoneChecked(row.TimeZone))

\* the try block from setEventEnd on
TryEnd(row, isAllDay, start, end) ==
  IF ~end.ok THEN end
  ELSE TryEvent(row, isAllDay, start, end, TimezoneChecked(row.TimeZone))

\* the try block from setEventStart on
TryStart(row, isAllDay, start) ==
  IF ~start.ok THEN start
  ELSE TryEnd(row, isAllDay, start.value,
              setEventEnd(row.EndDate, row.EndTime, start.value, isAllDay))

TryAllDay(row, isAllDay) ==
  TryStart(row, isAllDay, setEventStart(row.StartDate, row.StartTime, isAllDay))

\* the whole try block for a row: the event, or the error thrown
TryRow(row) == TryAllDay(row, IsAllDay(row))

(***************************************************************************)
(* Inputs                                                                  *)
(***************************************************************************)
Pad2(n) == <<Digits[(n \div 10) + 1], Digits[(n % 10) + 1]>>

Pad4(n) == Pad2(n \div 100) \o Pad2(n % 100)

RECURSIVE NatText(_)
NatText(n) == IF n < 10 THEN <<Digits[n + 1]>>
              ELSE NatText(n \div 10) \o <<Digits[(n % 10) + 1]>>

\* decimal text of an integer
IntText(n) == IF n < 0 THEN <<"-">> \o NatText(0 - n) ELSE NatText(n)

\* "YYYY-MM-DD"
DashDate(y, m, d) == Pad4(y) \o <<"-">> \o Pad2(m) \o <<"-">> \o Pad2(d)

\* "YYYY/M/D"
SlashYMD(y, m, d) == Pad4(y) \o <<"/">> \o NatText(m) \o <<"/">> \o NatText(d)

\* "A/B/YYYY"
SlashABY(a, b, y) == NatText(a) \o <<"/">> \o NatText(b) \o <<"/">> \o Pad4(y)

\* "HH:MM"
Clock(h, m) == Pad2(h) \o <<":">> \o Pad2(m)

\* "HH:MM:SS"
ClockS(h, m, sec) == Clock(h, m) \o <<":">> \o Pad2(sec)

Empty == <<>>

Blank == <<" ", " ">>

TxtAllDay == <<"A", "l", "l", " ", "d", "a", "y">>

TxtAllDayUpper == <<"A", "L", "L", " ", "D", "A", "Y">>

TxtInvalidTime == <<"i", "n", "v", "a", "l", "i", "d", "-", "t", "i", "m", "e">>

TxtAbc == <<"a", "b", "c">>

TxtDotDate == <<"2", "0", "2", "5", ".", "0", "3", ".", "3", "0">>

TxtMinutesSuffix == <<"9", "0", "m", "i", "n">>

\* the longest batch
MaxRows == 3

Subjects == <<"Meeting 1", "All Day Event", "Short Meeting", "Valid Event", "Another Valid Event">>

UIDs == <<"event-1", "event-2", "event-3", "event-4", "event-5">>

\* field values of the single-row batches
StartDates == {DashDate(2025, 1, 2), DashDate(2025, 2, 30), SlashABY(30, 1, 2025), Empty}

StartTimes ==
  {Clock(9, 0), ClockS(23, 0, 30), TxtAllDay, TxtAllDayUpper, Empty, Blank, TxtInvalidTime,
   Clock(25, 0)}

EndDates == {Empty, Blank, DashDate(2025, 1, 2), DashDate(2024, 12, 31), DashDate(2025, 2, 30),
             SlashYMD(2025, 1, 3), TxtDotDate}

EndTimes == {Empty, Clock(10, 0), Clock(8, 0), TxtAllDay, TxtAllDayUpper, IntText(120), IntText(0),
             IntText(-10), TxtAbc, Clock(25, 0)}

TimeZones == {"", "America/Santiago", "Invalid/TimeZone"}

RowFields ==
  [StartDate : StartDates, StartTime : StartTimes, EndDate : EndDates,
   EndTime : EndTimes, TimeZone : TimeZones]

Fields(sd, st, ed, et, tz) ==
  [StartDate |-> sd, StartTime |-> st, EndDate |-> ed, EndTime |-> et, TimeZone |-> tz]

\* field values of the rows of the longer batches
SampleFields ==
  { Fields(DashDate(2025, 4, 1), Clock(10, 0), DashDate(2025, 4, 1), Clock(11, 0), "America/Santiago"),
    Fields(DashDate(2025, 4, 2), TxtInvalidTime, DashDate(2025, 4, 2), Clock(12, 0), "America/Santiago"),
    Fields(DashDate(2025, 1, 2), TxtAllDay, Empty, TxtAllDay, "Europe/London"),
    Fields(DashDate(2025, 1, 2), Empty, Empty, Empty, ""),
    Fields(DashDate(2025, 5, 1), Clock(10, 0), DashDate(2025, 5, 1), Clock(11, 0), "Invalid/TimeZone"),
    Fields(DashDate(2025, 7, 15), Clock(10, 0), DashDate(2025, 7, 15), Clock(9, 0), ""),
    Fields(DashDate(2025, 7, 15), Clock(23, 0), Empty, IntText(120), ""),
    Fields(DashDate(2025, 3, 10), Clock(14, 0), Empty, Empty, "Europe/London") }

\* the k-th row of a batch
CsvRow(f, k) ==
  [Subject |-> Subjects[k], UID |-> UIDs[k], StartDate |-> f.StartDate,
   StartTime |-> f.StartTime, EndDate |-> f.EndDate, EndTime |-> f.EndTime,
   TimeZone |-> f.TimeZone]

Batches ==
  {<<CsvRow(f, 1)>> : f \in RowFields}
  \cup UNION {{[k \in 1..n |-> CsvRow(fs[k], k)] : fs \in [1..n -> SampleFields]} : n \in 0..MaxRows}

(***************************************************************************)
(* generateEvents                                                          *)
(***************************************************************************)
NoCall == [fn |-> "none"]

NoRet == [state |-> "none"]

Init ==
  /\ parsedCsv \in Batches
  /\ i = 0
  /\ events = <<>>
  /\ errors = <<>>
  /\ warnings = <<>>
  /\ pc = "loop"
  /\ call = NoCall
  /\ ret = NoRet

\* mutant: the event is put at the front of the list (unshift for push)
PushEventFirst(out) ==
  /\ out.ok
  /\ events' = <<out.value>> \o events
  /\ warnings' = IF out.warn THEN Append(warnings, out.value.start) ELSE warnings

\* mutant: the all-day flag of the previous event is carried over
PushEventCarried(out) ==
  /\ out.ok
  /\ events' = Append(events, IF events = <<>> THEN out.value
                              ELSE [out.value EXCEPT !.allDay = events[Len(events)].allDay])
  /\ warnings' = IF out.warn THEN Append(warnings, out.value.start) ELSE warnings

\* events.push(event), and the console.warn of the default duration
PushEvent(out) ==
  /\ out.ok
  /\ events' = Append(events, out.value)
  /\ warnings' = IF out.warn THEN Append(warnings, out.value.start) ELSE warnings

\* mutant: the diagnostic gives the 0-based index of the row
LogErrorZeroBased(row, out) ==
  /\ ~out.ok
  /\ errors' = Append(errors, [row |-> i, subject |-> row.Subject,
                               msg |-> out.msg, args |-> out.args])

\* console.error(`Error processing row ${i + 1} (Subject: "${row.Subject}"): ${error.message}`)
LogError(row, out) ==
  /\ ~out.ok
  /\ errors' = Append(errors, [row |-> i + 1, subject |-> row.Subject,
                               msg |-> out.msg, args |-> out.args])

\* mutant: the row's End Date is trimmed in place before it is resolved
RowResolvedTrimsRow ==
  /\ pc = "loop"
  /\ i < Len(parsedCsv)
  /\ PushEvent(TryRow(parsedCsv[i + 1]))
  /\ i' = i + 1
  /\ parsedCsv' = [parsedCsv EXCEPT ![i + 1].EndDate = trim(@)]
  /\ UNCHANGED <<errors, pc, call, ret>>

\* one iteration whose try block completes
RowResolved ==
  /\ pc = "loop"
  /\ i < Len(parsedCsv)
  /\ PushEvent(TryRow(parsedCsv[i + 1]))
  /\ i' = i + 1
  /\ UNCHANGED <<parsedCsv, errors, pc, call, ret>>

\* mutant: the error of a row ends the loop
RowSkippedAborts ==
  /\ pc = "loop"
  /\ i < Len(parsedCsv)
  /\ LogError(parsedCsv[i + 1], TryRow(parsedCsv[i + 1]))
  /\ i' = i + 1
  /\ pc' = "done"
  /\ UNCHANGED <<parsedCsv, events, warnings, call, ret>>

\* one iteration whose try block throws: the error is logged, the loop goes on
RowSkipped ==
  /\ pc = "loop"
  /\ i < Len(parsedCsv)
  /\ LogError(parsedCsv[i + 1], TryRow(parsedCsv[i + 1]))
  /\ i' = i + 1
  /\ UNCHANGED <<parsedCsv, events, warnings, pc, call, ret>>

\* the loop ends: return events
ReturnEvents ==
  /\ pc = "loop"
  /\ i >= Len(parsedCsv)
  /\ pc' = "done"
  /\ UNCHANGED <<parsedCsv, i, events, errors, warnings, call, ret>>

Next == RowResolved \/ RowSkipped \/ ReturnEvents

Spec == Init /\ [][Next]_vars

(***************************************************************************)
(* setEventEnd called on its own                                           *)
(***************************************************************************)
\* End Dates written YYYY-MM-DD: <<year, month, day>>
EndDateYMDs ==
  {<<2025, 7, 15>>, <<2025, 7, 14>>, <<2025, 7, 16>>, <<2025, 2, 30>>, <<2025, 12, 31>>,
   <<2025, 4, 30>>}

\* End Times written HH:MM and HH:MM:SS: <<hours, minutes>>, <<hours, minutes, seconds>>
EndClockHMs == {<<9, 0>>, <<10, 0>>, <<0, 0>>, <<25, 0>>}

EndClockHMSs == {<<11, 30, 45>>, <<10, 0, 0>>}

\* End Times written as a number of minutes
Durations == {0, 1, 120, 1500}

NegativeDurations == {-10, -1}

EndDateArgs ==
  {DashDate(x[1], x[2], x[3]) : x \in EndDateYMDs}
  \cup {Empty, Blank, SlashYMD(2026, 1, 1), TxtDotDate, IntText(120)}

EndTimeArgs ==
  {Clock(x[1], x[2]) : x \in EndClockHMs}
  \cup {ClockS(x[1], x[2], x[3]) : x \in EndClockHMSs}
  \cup {IntText(d) : d \in Durations \cup NegativeDurations}
  \cup {Empty, TxtAbc, TxtAllDay, TxtInvalidTime, TxtMinutesSuffix}

StartArgs ==
  {NewDate(2025, 6, 15, 9, 0, 0), NewDate(2025, 6, 15, 10, 0, 0), NewDate(2025, 6, 15, 23, 0, 0),
   NewDate(2025, 0, 2, 0, 0, 0), NewDate(2025, 11, 31, 23, 30, 0), NewDate(2024, 1, 28, 12, 0, 30),
   InvalidDate}

InitEnd ==
  /\ call \in [fn : {"setEventEnd"}, endDateStr : EndDateArgs, endTimeStr : EndTimeArgs,
               start : StartArgs, isAllDayEvent : BOOLEAN]
  /\ ret = NoRet
  /\ parsedCsv = <<>>
  /\ i = 0
  /\ events = <<>>
  /\ errors = <<>>
  /\ warnings = <<>>
  /\ pc = "call"

CallSetEventEnd ==
  /\ pc = "call"
  /\ call.fn = "setEventEnd"
  /\ ret' = [state |-> "done",
             out |-> setEventEnd(call.endDateStr, call.endTimeStr, call.start,
                                 call.isAllDayEvent)]
  /\ pc' = "done"
  /\ UNCHANGED <<parsedCsv, i, events, errors, warnings, call>>

NextEnd == CallSetEventEnd

SpecEnd == InitEnd /\ [][NextEnd]_vars

(***************************************************************************)
(* parseFlexibleDate called on its own                                     *)
(***************************************************************************)
\* YYYY-M-D, month and day written without padding
DashLoose(y, m, d) == Pad4(y) \o <<"-">> \o NatText(m) \o <<"-">> \o NatText(d)

\* YYYY/MM/DD, month and day padded to two digits
SlashYMDPadded(y, m, d) == Pad4(y) \o <<"/">> \o Pad2(m) \o <<"/">> \o Pad2(d)

\* AA/BB/YYYY, both groups padded to two digits
SlashABYPadded(a, b, y) == Pad2(a) \o <<"/">> \o Pad2(b) \o <<"/">> \o Pad4(y)

\* the years, and the values of the month and day groups, that the texts are written from
TextYears == {2025, 1999}

DashMonths == {0, 1, 2, 12, 13, 99}

DashDays == {0, 1, 29, 31, 32, 99}

SlashMonths == {0, 1, 3, 12, 13, 29}

SlashDays == {0, 1, 29, 31, 32}

ABGroups == {0, 1, 5, 12, 13, 30, 31, 32}

\* texts of shape YYYY-MM-DD
DashTexts == {DashDate(y, m, d) : y \in TextYears, m \in DashMonths, d \in DashDays}

\* texts of shape YYYY/M(M)/D(D)
SlashYMDTexts ==
  {SlashYMD(2025, m, d) : m \in SlashMonths, d \in SlashDays}
  \cup {SlashYMDPadded(1999, m, d) : m \in SlashMonths, d \in SlashDays}
  \cup {SlashYMDPadded(2025, 3, 32), SlashYMDPadded(2025, 13, 29), SlashYMDPadded(2025, 3, 30)}

\* texts of shape D(D)/D(D)/YYYY
SlashABYTexts ==
  {SlashABY(a, b, 2025) : a \in ABGroups, b \in ABGroups}
  \cup {SlashABYPadded(a, b, 1999) : a \in ABGroups, b \in ABGroups}
  \cup {SlashABYPadded(1, 30, 2025), SlashABYPadded(30, 1, 2025), SlashABYPadded(12, 29, 2025)}

\* texts of none of the three shapes
OtherTexts ==
  {Empty, Blank, TxtDotDate, TxtAbc, IntText(120), IntText(20250330),
   DashLoose(2025, 3, 30), DashLoose(2025, 12, 3), DashLoose(2025, 3, 5),
   <<" ">> \o DashDate(2025, 3, 30), DashDate(2025, 3, 30) \o <<" ">>,
   DashDate(2025, 3, 30) \o Clock(10, 0),
   Pad2(25) \o <<"-">> \o Pad2(3) \o <<"-">> \o Pad2(30),
   Pad2(25) \o <<"/">> \o Pad2(3) \o <<"/">> \o Pad2(30),
   Pad4(2025) \o <<"/">> \o Pad2(3), Pad4(2025) \o <<"/">> \o Pad2(3) \o <<"/">>,
   Pad4(2025) \o <<"/">> \o Pad4(123) \o <<"/">> \o Pad2(3),
   SlashABY(3, 30, 2025) \o <<"/">> \o Pad2(1),
   <<"-">> \o SlashABY(3, 30, 2025),
   Pad2(30) \o <<"-">> \o Pad2(1) \o <<"-">> \o Pad4(2025),
   Pad4(2025) \o <<"/">> \o Pad2(3) \o <<"-">> \o Pad2(30)}

DateTexts == DashTexts \cup SlashYMDTexts \cup SlashABYTexts \cup OtherTexts

InitParse ==
  /\ call \in [fn : {"parseFlexibleDate"}, dateStr : DateTexts]
  /\ ret = NoRet
  /\ parsedCsv = <<>>
  /\ i = 0
  /\ events = <<>>
  /\ errors = <<>>
  /\ warnings = <<>>
  /\ pc = "call"

CallParseFlexibleDate ==
  /\ pc = "call"
  /\ call.fn = "parseFlexibleDate"
  /\ ret' = [state |-> "done", out |-> parseFlexibleDate(call.dateStr)]
  /\ pc' = "done"
  /\ UNCHANGED <<parsedCsv, i, events, errors, warnings, call>>

NextParse == CallParseFlexibleDate

SpecParse == InitParse /\ [][NextParse]_vars

(***************************************************************************)
(* setEventStart called on its own                                         *)
(***************************************************************************)
\* Start Dates written YYYY-MM-DD: <<year, month, day>>; some are not dates
\* of the calendar
StartDateYMDs ==
  {<<2025, 1, 2>>, <<2025, 1, 31>>, <<2024, 2, 29>>, <<2025, 12, 31>>,
   <<2025, 2, 29>>, <<2025, 2, 30>>, <<2025, 4, 31>>, <<2025, 6, 31>>, <<2025, 13, 1>>,
   <<2025, 1, 0>>, <<2025, 0, 10>>}

\* Start Times written HH:MM and HH:MM:SS
StartClockHMs == {<<0, 0>>, <<10, 0>>, <<23, 59>>, <<24, 0>>, <<10, 60>>, <<99, 99>>}

StartClockHMSs == {<<11, 30, 45>>, <<23, 59, 59>>, <<10, 0, 60>>, <<24, 0, 0>>, <<10, 60, 0>>}

StartDateArgs ==
  {DashDate(x[1], x[2], x[3]) : x \in StartDateYMDs}
  \cup {SlashYMD(2025, 2, 30), SlashYMD(2025, 3, 31), SlashYMD(2025, 13, 29),
        SlashABY(30, 1, 2025), SlashABY(1, 30, 2025), SlashABY(31, 4, 2025),
        SlashABY(2, 31, 2025), SlashABY(13, 13, 2025)}
  \cup {Empty, Blank, TxtDotDate, DashLoose(2025, 3, 5)}

StartTimeArgs ==
  {Clock(x[1], x[2]) : x \in StartClockHMs}
  \cup {ClockS(x[1], x[2], x[3]) : x \in StartClockHMSs}
  \cup {Empty, Blank, TxtAllDay, TxtInvalidTime, IntText(120),
        NatText(9) \o <<":">> \o Pad2(0), Pad2(10) \o <<":">> \o NatText(5),
        Clock(10, 0) \o <<":">>, Clock(10, 0) \o <<" ">>, Pad2(10) \o <<".">> \o Pad2(0),
        ClockS(10, 0, 0) \o <<":">> \o Pad2(0)}

InitStart ==
  /\ call \in [fn : {"setEventStart"}, startDateStr : StartDateArgs,
               startTimeStr : StartTimeArgs, isAllDay : BOOLEAN]
  /\ ret = NoRet
  /\ parsedCsv = <<>>
  /\ i = 0
  /\ events = <<>>
  /\ errors = <<>>
  /\ warnings = <<>>
  /\ pc = "call"

CallSetEventStart ==
  /\ pc = "call"
  /\ call.fn = "setEventStart"
  /\ ret' = [state |-> "done",
             out |-> setEventStart(call.startDateStr, call.startTimeStr, call.isAllDay)]
  /\ pc' = "done"
  /\ UNCHANGED <<parsedCsv, i, events, errors, warnings, call>>

NextStart == CallSetEventStart

SpecStart == InitStart /\ [][NextStart]_vars

(***************************************************************************)
(* Properties                                                              *)
(***************************************************************************)
\* the resolution steps of a row, as generateEvents chains them
StartOf(row) == setEventStart(row.StartDate, row.StartTime, IsAllDay(row))

EndOf(row, start) == setEventEnd(row.EndDate, row.EndTime, start, IsAllDay(row))

FailsFrom(row, start) ==
  \/ ~start.ok
  \/ ~EndOf(row, start.value).ok
  \/ ~TimezoneChecked(row.TimeZone).ok

\* the row fails in start resolution, end resolution or timezone validation
RowFails(row) == FailsFrom(row, StartOf(row))

\* the row an event was made from (the UIDs of a batch are distinct)
RowOfEvent(e) == parsedCsv[CHOOSE k \in 1..Len(parsedCsv) : parsedCsv[k].UID = e.id]

\* 00:00:00 of the calendar day after the day of date
NextMidnight(date) ==
  [nan |-> FALSE, t |-> ((date.t \div (24 * 60 * 60)) + 1) * (24 * 60 * 60)]

Called == ret.state = "done"

\* setEventEnd was called for a timed row with a valid start
TimedCall == Called /\ ~call.isAllDayEvent /\ ~call.start.nan

\* C1: no event that generateEvents emits has its end before its start.
C1_EndNotBeforeStart ==
  \A k \in 1..Len(events) : ~TimeLess(events[k].end, events[k].start)

\* C2: after each processed row the diagnostics are exactly one per failing row
\* among the rows processed, each for a distinct row, the events are as many as
\* the other rows, and the batch is processed to its last row.
C2_BatchCounts ==
  LET failing == {k \in 1..i : RowFails(parsedCsv[k])}
  IN  /\ Len(errors) = Cardinality(failing)
      /\ Len(events) = i - Cardinality(failing)
      /\ Len(events) + Len(errors) = i
      /\ {errors[a].row : a \in 1..Len(errors)} = failing
      /\ \A a, b \in 1..Len(errors) : a # b => errors[a].row # errors[b].row
      /\ pc = "done" => i = Len(parsedCsv)

\* a batch of three rows of which two failed has been processed to its end
C2_Witness ==
  pc = "done" /\ Len(parsedCsv) = 3 /\ Len(errors) = 2 /\ Len(events) = 1

\* C3: the events are the rows processed that did not fail, in input order.
C3_OrderPreserved ==
  LET resolved == SelectSeq(SubSeq(parsedCsv, 1, i), LAMBDA r : ~RowFails(r))
  IN  /\ Len(events) = Len(resolved)
      /\ \A k \in 1..Len(events) :
            events[k].id = resolved[k].UID /\ events[k].summary = resolved[k].Subject

\* three rows, the second skipped: the first and the third are the events, in order
C3_Witness ==
  /\ pc = "done" /\ Len(parsedCsv) = 3 /\ Len(events) = 2
  /\ events[1].id = UIDs[1] /\ events[2].id = UIDs[3]
  /\ Len(errors) = 1 /\ errors[1].row = 2

\* C4: an all-day event of a row with End Date empty and End Time empty or
\* "All day" ends at midnight of the day after its start's day.
C4_AllDayNoEndDate ==
  \A k \in 1..Len(events) :
    (/\ events[k].allDay
     /\ RowOfEvent(events[k]).EndDate = Empty
     /\ RowOfEvent(events[k]).EndTime \in {Empty, TxtAllDay})
    => events[k].end = NextMidnight(events[k].start)

\* C5: a timed row with End Date and End Time both empty, whose start resolves and
\* whose timezone is accepted, gets an event ending 60 minutes after its start and
\* no diagnostic.
C5_DefaultDuration ==
  \A k \in 1..i :
    (/\ ~IsAllDay(parsedCsv[k])
     /\ parsedCsv[k].EndDate = Empty /\ parsedCsv[k].EndTime = Empty
     /\ StartOf(parsedCsv[k]).ok
     /\ TimezoneChecked(parsedCsv[k].TimeZone).ok)
    => /\ \A a \in 1..Len(errors) : errors[a].row # k
       /\ \E e \in 1..Len(events) :
            /\ events[e].id = parsedCsv[k].UID
            /\ ~events[e].allDay
            /\ events[e].end = [nan |-> FALSE, t |-> events[e].start.t + 60 * 60]

\* C6: for a timed row with End Date empty and End Time the decimal text of d >= 0,
\* setEventEnd returns start + d minutes as an instant (carrying into the next
\* day, month and year), without a warning; d = 0 gives start.
C6_DurationAdded ==
  \A d \in Durations :
    (TimedCall /\ call.endDateStr = Empty /\ call.endTimeStr = IntText(d))
    => ret.out = Return([nan |-> FALSE, t |-> call.start.t + d * 60])

\* 2025-07-15 23:00:00 and 120 minutes give 2025-07-16 01:00:00
C6_Witness ==
  /\ TimedCall /\ call.endDateStr = Empty /\ call.endTimeStr = IntText(120)
  /\ call.start = NewDate(2025, 6, 15, 23, 0, 0)
  /\ ret.out.ok /\ ret.out.value = NewDate(2025, 6, 16, 1, 0, 0)

\* C7: for a timed row with a parseable End Date and End Time the decimal text of
\* d >= 0, setEventEnd returns start + d minutes.
C7_IntegerAlwaysFromStart ==
  \A d \in Durations :
    (/\ TimedCall /\ call.endTimeStr = IntText(d)
     /\ Truthy(call.endDateStr) /\ parseFlexibleDate(call.endDateStr).ok)
    => ret.out.ok /\ ret.out.value = [nan |-> FALSE, t |-> call.start.t + d * 60]

\* the End Dates that parse, with the year, month and day they are written from
ParseableEndDates ==
  {<<DashDate(x[1], x[2], x[3]), x>> : x \in EndDateYMDs}
  \cup {<<SlashYMD(2026, 1, 1), <<2026, 1, 1>>>>}

\* the End Times that are clock times with in-range components, with the hours,
\* minutes and seconds they are written from
ValidEndClocks ==
  {<<Clock(x[1], x[2]), <<x[1], x[2], 0>>>> : x \in {y \in EndClockHMs : y[1] <= 23 /\ y[2] <= 59}}
  \cup {<<ClockS(x[1], x[2], x[3]), x>> :
          x \in {y \in EndClockHMSs : y[1] <= 23 /\ y[2] <= 59 /\ y[3] <= 59}}

\* the outcome C8 states for the end instant built from the End Date and End Time
ExplicitOutcomeIs(end) ==
  IF end.t < call.start.t
  THEN ~ret.out.ok /\ ret.out.msg[Len(ret.out.msg)] = MsgEndBeforeStart
  ELSE ret.out = Return(end)

C9_NegativeAlwaysDurationError ==
  \A d \in NegativeDurations :
    (TimedCall /\ call.endTimeStr = IntText(d))
    => ~ret.out.ok /\ ret.out.msg = <<MsgNegativeDuration>>

\* C9 as amended: a negative End Time of a timed row always makes setEventEnd
\* throw: the "non-negative number of minutes" error when the End Date is blank
\* or parses, the End Date parsing error when it does not parse.
C9_NegativeDurationRejected ==
  \A d \in NegativeDurations :
    (TimedCall /\ call.endTimeStr = IntText(d))
    => /\ ~ret.out.ok
       /\ IF trim(call.endDateStr) = <<>> \/ parseFlexibleDate(call.endDateStr).ok
          THEN ret.out.msg = <<MsgNegativeDuration>> /\ ret.out.args = <<call.endTimeStr>>
          ELSE ret.out.msg[1] = MsgEndDatePrefix

\* End Date 2025-07-16 with End Time -10 is rejected as a negative duration
C9_Witness ==
  /\ TimedCall /\ call.endDateStr = DashDate(2025, 7, 16) /\ call.endTimeStr = IntText(-10)
  /\ ~ret.out.ok /\ ret.out.msg = <<MsgNegativeDuration>>

\* C10: an explicit End Date 2025-02-30 with a valid clock End Time makes
\* setEventEnd throw the invalid-end-date error.
C10_Feb30Rejected ==
  \A ck \in ValidEndClocks :
    (TimedCall /\ call.endDateStr = DashDate(2025, 2, 30) /\ call.endTimeStr = ck[1])
    => ~ret.out.ok /\ ret.out.msg[Len(ret.out.msg)] = MsgInvalidEndDate

\* setEventStart was called and has finished
StartCalled == Called /\ call.fn = "setEventStart"

\* parseFlexibleDate was called and has finished
ParseCalled == Called /\ call.fn = "parseFlexibleDate"

\* the calendar date of an instant is year, month (0-indexed), day
OnCalendarDate(date, year, month, day) ==
  ~date.nan /\ getFullYear(date) = year /\ getMonth(date) = month /\ getDate(date) = day

\* C11: whenever setEventStart returns an instant, all-day or timed, the
\* instant's calendar date is the year, month and day parsed from the Start
\* Date: components that do not form a real calendar date make it fail.
C11_StartOnParsedDate ==
  (StartCalled /\ ret.out.ok /\ parseFlexibleDate(call.startDateStr).ok)
  => LET ymd == parseFlexibleDate(call.startDateStr).value
     IN  OnCalendarDate(ret.out.value, ymd.year, ymd.month, ymd.day)

\* what C12 says of a text D(D)/D(D)/YYYY with groups a, b and year y
DayFirstOrMonthFirst(a, b, y, text) ==
  LET month == IF a > 12 /\ b <= 12 THEN b - 1 ELSE a - 1
      day   == IF a > 12 /\ b <= 12 THEN a ELSE b
  IN  IF month \in 0..11 /\ day \in 1..31
      THEN Return(CalendarDate(y, month, day))
      ELSE Throw(<<MsgInvalidMonthOrDay>>, <<text>>)

\* C12: a text a/b/YYYY is day a, month b - 1 when a > 12 and b <= 12, and
\* month a - 1, day b otherwise; it then fails with the invalid-month-or-day
\* error unless month is in 0..11 and day in 1..31.  "01/30/2025" and
\* "30/01/2025" both give month 0, day 30.
C12_SlashDisambiguation ==
  ParseCalled =>
    /\ \A a \in ABGroups, b \in ABGroups :
         /\ call.dateStr = SlashABY(a, b, 2025)
              => ret.out = DayFirstOrMonthFirst(a, b, 2025, call.dateStr)
         /\ call.dateStr = SlashABYPadded(a, b, 1999)
              => ret.out = DayFirstOrMonthFirst(a, b, 1999, call.dateStr)
    /\ call.dateStr \in {SlashABYPadded(1, 30, 2025), SlashABYPadded(30, 1, 2025)}
         => ret.out = Return(CalendarDate(2025, 0, 30))

\* "30/01/2025" was parsed day first
C12_Witness ==
  /\ ParseCalled /\ call.dateStr = SlashABYPadded(30, 1, 2025)
  /\ ret.out.ok /\ ret.out.value.month = 0 /\ ret.out.value.day = 30

C14_CalendarDateInRange ==
  (ParseCalled /\ ret.out.ok)
  => ret.out.value.month \in 0..11 /\ ret.out.value.day \in 1..31

\* what C15 says of a text YYYY/M(M)/D(D) written from y, m, d
SlashYMDOutcome(y, m, d, text) ==
  IF m \notin 1..12 \/ d \notin 1..31
  THEN Throw(<<MsgInvalidMonthOrDay>>, <<text>>)
  ELSE Return(CalendarDate(y, m - 1, d))

\* C15: a text YYYY/M(M)/D(D) fails with the invalid-month-or-day error that
\* quotes the text exactly when the month is outside 1..12 or the day outside
\* 1..31, and otherwise gives year, month - 1, day.
C15_SlashYMDRangeChecked ==
  ParseCalled =>
    /\ \A m \in SlashMonths, d \in SlashDays :
         /\ call.dateStr = SlashYMD(2025, m, d)
              => ret.out = SlashYMDOutcome(2025, m, d, call.dateStr)
         /\ call.dateStr = SlashYMDPadded(1999, m, d)
              => ret.out = SlashYMDOutcome(1999, m, d, call.dateStr)
    /\ call.dateStr \in {SlashYMDPadded(2025, 3, 32), SlashYMDPadded(2025, 13, 29)}
         => ret.out = Throw(<<MsgInvalidMonthOrDay>>, <<call.dateStr>>)
    /\ call.dateStr = SlashYMDPadded(2025, 3, 30)
         => ret.out = Return(CalendarDate(2025, 2, 30))

\* "2025/03/32" was rejected, the error naming the text
C15_Witness ==
  /\ ParseCalled /\ call.dateStr = SlashYMDPadded(2025, 3, 32)
  /\ ~ret.out.ok /\ ret.out.args = <<SlashYMDPadded(2025, 3, 32)>>

\* C16: a text of none of the three shapes (the empty text, "2025.03.30", a
\* dash date with a one-digit month or day, ...) makes parseFlexibleDate fail
\* with the unsupported-format error, which quotes the text and names the four
\* formats; no date is returned.
C16_UnsupportedFormat ==
  (ParseCalled /\ call.dateStr \in OtherTexts)
  => ret.out = Throw(<<MsgUnsupportedFormat>>, <<call.dateStr>>)

\* the dash date 2025-3-30, its month of one digit, was rejected as unsupported
C16_Witness ==
  /\ ParseCalled /\ call.dateStr = DashLoose(2025, 3, 30)
  /\ ~ret.out.ok /\ ret.out.msg = <<MsgUnsupportedFormat>>

\* an instant written back as YYYY-MM-DD and as HH:MM:SS
FormatDate(date) == DashDate(getFullYear(date), getMonth(date) + 1, getDate(date))

FormatTime(date) == ClockS(getHours(date), getMinutes(date), getSeconds(date))

\* a time text HH:MM or HH:MM:SS, its seconds written out
WithSeconds(timeStr) == IF Len(timeStr) = 5 THEN timeStr \o <<":", "0", "0">> ELSE timeStr

\* the row has an explicit end and is written in canonical form
CanonicalExplicitRow(row) ==
  /\ MatchYMDDash(row.StartDate) /\ MatchYMDDash(row.EndDate)
  /\ timeRegex(row.StartTime) /\ timeRegex(row.EndTime)

\* C17: the start and end of an event made from a row with an explicit end in
\* canonical form (dates YYYY-MM-DD, times HH:MM or HH:MM:SS), written back as
\* YYYY-MM-DD and HH:MM:SS, are the row's dates and times.
C17_RoundTrip ==
  \A k \in 1..Len(events) :
    CanonicalExplicitRow(RowOfEvent(events[k]))
    => /\ ~events[k].start.nan /\ ~events[k].end.nan
       /\ FormatDate(events[k].start) = RowOfEvent(events[k]).StartDate
       /\ FormatTime(events[k].start) = WithSeconds(RowOfEvent(events[k]).StartTime)
       /\ FormatDate(events[k].end) = RowOfEvent(events[k]).EndDate
       /\ FormatTime(events[k].end) = WithSeconds(RowOfEvent(events[k]).EndTime)

\* the Start Times of the shape HH:MM or HH:MM:SS with a component out of range
OutOfRangeStartClocks ==
  {Clock(x[1], x[2]) : x \in {y \in StartClockHMs : y[1] > 23 \/ y[2] > 59}}
  \cup {ClockS(x[1], x[2], x[3]) :
          x \in {y \in StartClockHMSs : y[1] > 23 \/ y[2] > 59 \/ y[3] > 59}}

\* the Start Times of the shape HH:MM or HH:MM:SS
ShapedStartClocks ==
  {Clock(x[1], x[2]) : x \in StartClockHMs}
  \cup {ClockS(x[1], x[2], x[3]) : x \in StartClockHMSs}

\* the outcome is an error about the shape of a text
IsFormatError(out) ==
  ~out.ok /\ out.msg[Len(out.msg)] \in {MsgStartTimeFormat, MsgUnsupportedFormat}

AtMidnight(date) == ~date.nan /\ FormatTime(date) = ClockS(0, 0, 0)

\* the start of an all-day event is 00:00:00 of the row's Start Date
AllDayStartOf(e, ymd) ==
  AtMidnight(e.start) /\ OnCalendarDate(e.start, ymd.year, ymd.month, ymd.day)

\* C19: every event emitted with allDay = TRUE starts at 00:00:00 of its row's
\* Start Date and ends at 00:00:00 of a calendar day strictly later than the
\* start's day, whatever the row's Start Time and End Time.
C19_AllDayBoundaries ==
  \A k \in 1..Len(events) :
    events[k].allDay
    => /\ AllDayStartOf(events[k], parseFlexibleDate(RowOfEvent(events[k]).StartDate).value)
       /\ AtMidnight(events[k].end)
       /\ TimeLess(events[k].start, events[k].end)

\* End Dates of the calendar and the calendar day after each, as
\* <<text, year, month, day of the next day>>
EndDateNextDays ==
  {<<DashDate(2025, 7, 15), 2025, 7, 16>>, <<DashDate(2025, 7, 14), 2025, 7, 15>>,
   <<DashDate(2025, 7, 16), 2025, 7, 17>>, <<DashDate(2025, 4, 30), 2025, 5, 1>>,
   <<DashDate(2025, 12, 31), 2026, 1, 1>>, <<SlashYMD(2026, 1, 1), 2026, 1, 2>>}

\* setEventEnd was called for an all-day row with a valid start
AllDayCall == Called /\ call.fn = "setEventEnd" /\ call.isAllDayEvent /\ ~call.start.nan

ErrorsOfRow(k) == {errors[j] : j \in {n \in 1..Len(errors) : errors[n].row = k}}

\* an event was emitted for the row
Emitted(row) == \E k \in 1..Len(events) : events[k].id = row.UID

\* the Time Zone field is non-empty and not a recognized IANA zone
UnknownZone(row) == row.TimeZone # "" /\ row.TimeZone \notin IanaZones

\* a diagnostic that contains the text
Mentions(e, text) == \E k \in 1..Len(e.args) : e.args[k] = text

\* the row's start and end resolve
StartAndEndResolve(row) == StartOf(row).ok /\ EndOf(row, StartOf(row).value).ok

\* C21, as stated: every processed row with an unknown Time Zone is skipped
\* with a diagnostic that contains the identifier; a row with an empty Time
\* Zone never gets the timezone error.
C21_UnknownZoneSkippedAsStated ==
  \A k \in 1..i :
    /\ UnknownZone(parsedCsv[k])
         => /\ ~Emitted(parsedCsv[k])
            /\ \E e \in ErrorsOfRow(k) : Mentions(e, parsedCsv[k].TimeZone)
    /\ parsedCsv[k].TimeZone = ""
         => \A e \in ErrorsOfRow(k) : e.msg # <<MsgInvalidTimezone>>

\* C21 as amended: every processed row with an unknown Time Zone is skipped
\* with one diagnostic; when its start and end resolve, the diagnostic is the
\* timezone error and contains the identifier, otherwise it is the error of
\* the start or end resolution.  A row with an empty Time Zone never gets the
\* timezone error.
C21_UnknownZoneSkipped ==
  \A k \in 1..i :
    /\ UnknownZone(parsedCsv[k])
         => /\ ~Emitted(parsedCsv[k])
            /\ Cardinality(ErrorsOfRow(k)) = 1
            /\ \A e \in ErrorsOfRow(k) :
                 IF StartAndEndResolve(parsedCsv[k])
                 THEN e.msg = <<MsgInvalidTimezone>> /\ Mentions(e, parsedCsv[k].TimeZone)
                 ELSE e.msg # <<MsgInvalidTimezone>>
    /\ parsedCsv[k].TimeZone = ""
         => \A e \in ErrorsOfRow(k) : e.msg # <<MsgInvalidTimezone>>

\* a row whose start and end resolve was skipped for its unknown Time Zone
C21_Witness ==
  \E k \in 1..i :
    /\ UnknownZone(parsedCsv[k]) /\ StartAndEndResolve(parsedCsv[k])
    /\ ~Emitted(parsedCsv[k])
    /\ \E e \in ErrorsOfRow(k) : e.msg = <<MsgInvalidTimezone>>

\* setEventEnd was called with a valid start and has finished
EndCalled == Called /\ call.fn = "setEventEnd" /\ ~call.start.nan

\* C22: whatever the End Date, the End Time and the all-day flag, a call of
\* setEventEnd with a valid start that returns, returns a valid instant (not
\* an Invalid Date).
C22_EndIsValidInstant == (EndCalled /\ ret.out.ok) => ~ret.out.value.nan

\* End Times that are neither a valid clock time nor a non-negative integer
NeitherClockNorMinutes ==
  {TxtAbc, TxtInvalidTime, TxtAllDay, TxtMinutesSuffix, Clock(25, 0)}
  \cup {IntText(d) : d \in NegativeDurations}

\* C23: for a timed row with a parseable End Date, an End Time that is
\* neither a valid clock time nor a non-negative integer makes setEventEnd
\* fail, wherever the End Date lies relative to start.
C23_InvalidEndTimeRejected ==
  (TimedCall /\ call.endDateStr \in {x[1] : x \in ParseableEndDates}
     /\ call.endTimeStr \in NeitherClockNorMinutes)
  => ~ret.out.ok

\* the diagnostic carries the message of the outcome
Carries(e, out) == ~out.ok /\ e.msg = out.msg /\ e.args = out.args

\* the message of the first step that fails for the row, in the order start,
\* end, timezone
FirstFailureCarried(e, row, start) ==
  IF ~start.ok THEN Carries(e, start)
  ELSE IF ~EndOf(row, start.value).ok THEN Carries(e, EndOf(row, start.value))
  ELSE Carries(e, TimezoneChecked(row.TimeZone))

FailingPositions == {k \in 1..i : RowFails(parsedCsv[k])}

\* C25: the j-th diagnostic is the one of the j-th failing row of the input:
\* its row number is that row's 1-based position in the input (rows skipped
\* before it counted), its subject that row's Subject, its message that row's
\* error.
C25_DiagnosticNamesRow ==
  /\ Len(errors) = Cardinality(FailingPositions)
  /\ \A j \in 1..Len(errors) :
       /\ errors[j].row \in FailingPositions
       /\ Cardinality({k \in FailingPositions : k < errors[j].row}) = j - 1
       /\ errors[j].subject = parsedCsv[errors[j].row].Subject
       /\ errors[j].subject = Subjects[errors[j].row]
       /\ FirstFailureCarried(errors[j], parsedCsv[errors[j].row],
                              StartOf(parsedCsv[errors[j].row]))

\* the second diagnostic of a batch is the one of its third row: one row before
\* it was skipped, one was emitted
C25_Witness ==
  /\ Len(errors) = 2 /\ Len(events) = 1
  /\ errors[2].row = 3 /\ errors[2].subject = Subjects[3]

\* the row with its Time Zone field emptied
WithoutZone(row) == [row EXCEPT !.TimeZone = ""]

\* C26: the start and end of every emitted event are those the same row
\* gives with an empty Time Zone; the identifier is only passed through as the
\* event's timezone.
C26_ZoneLeavesInstants ==
  \A k \in 1..Len(events) :
    /\ TryRow(WithoutZone(RowOfEvent(events[k]))).ok
    /\ events[k].start = TryRow(WithoutZone(RowOfEvent(events[k]))).value.start
    /\ events[k].end = TryRow(WithoutZone(RowOfEvent(events[k]))).value.end
    /\ events[k].timezone = RowOfEvent(events[k]).TimeZone

\* an event was emitted for a row with a valid Time Zone
C26_Witness ==
  \E k \in 1..Len(events) :
    events[k].timezone = "America/Santiago" /\ ~events[k].start.nan /\ ~events[k].end.nan

\* what C27 says isAllDay is, on the texts the rows are written from
AllDayAsStated(row) ==
  \/ row.StartTime \in {TxtAllDay, TxtAllDayUpper}
  \/ row.StartTime \in {Empty, Blank}
  \/ row.EndTime \in {TxtAllDay, TxtAllDayUpper}

\* the row's failure when start and end are resolved with the flag
FailureWithFlag(e, row, flag, start) ==
  IF ~start.ok THEN Carries(e, start)
  ELSE IF ~setEventEnd(row.EndDate, row.EndTime, start.value, flag).ok
  THEN Carries(e, setEventEnd(row.EndDate, row.EndTime, start.value, flag))
  ELSE Carries(e, TimezoneChecked(row.TimeZone))

\* the event's flag, start and end are those of the one flag
EventWithFlag(e, row, flag) ==
  /\ e.allDay = flag
  /\ e.start = setEventStart(row.StartDate, row.StartTime, flag).value
  /\ e.end = setEventEnd(row.EndDate, row.EndTime, e.start, flag).value

\* C27: isAllDay of a row is TRUE exactly when its Start Time is "all day" in
\* any case or blank, or its End Time is "all day" in any case; that one value
\* is the flag setEventStart and setEventEnd are called with and the allDay
\* of the event.
C27_OneAllDayFlag ==
  /\ \A k \in 1..Len(events) :
       EventWithFlag(events[k], RowOfEvent(events[k]), AllDayAsStated(RowOfEvent(events[k])))
  /\ \A j \in 1..Len(errors) :
       FailureWithFlag(errors[j], parsedCsv[errors[j].row],
                       AllDayAsStated(parsedCsv[errors[j].row]),
                       setEventStart(parsedCsv[errors[j].row].StartDate,
                                     parsedCsv[errors[j].row].StartTime,
                                     AllDayAsStated(parsedCsv[errors[j].row])))

\* an all-day event was emitted for a row whose End Time alone says "ALL DAY"
C27_Witness ==
  \E k \in 1..Len(events) :
    /\ events[k].allDay
    /\ RowOfEvent(events[k]).StartTime = Clock(9, 0)
    /\ RowOfEvent(events[k]).EndTime = TxtAllDayUpper

\* the fields of a row that the resolution reads
FieldsOf(row) ==
  Fields(row.StartDate, row.StartTime, row.EndDate, row.EndTime, row.TimeZone)

\* the outcome of the row's fields as the only row of a batch
Alone(row) == TryRow(CsvRow(FieldsOf(row), 1))

\* the event has the start, end and allDay flag of the outcome
SameResolution(e, out) ==
  e.start = out.value.start /\ e.end = out.value.end /\ e.allDay = out.value.allDay

\* C28: within any batch, at any position and whatever rows surround it, a
\* processed row has the outcome its fields have as the only row of a batch:
\* the same start, end and allDay flag, or the same failure message.
C28_RowOutcomeIsLocal ==
  \A k \in 1..i :
    IF Alone(parsedCsv[k]).ok
    THEN /\ ErrorsOfRow(k) = {}
         /\ \E n \in 1..Len(events) :
              events[n].id = parsedCsv[k].UID /\ SameResolution(events[n], Alone(parsedCsv[k]))
    ELSE /\ ~Emitted(parsedCsv[k])
         /\ \E e \in ErrorsOfRow(k) : Carries(e, Alone(parsedCsv[k]))

\* the same fields were resolved to the same event at positions 1 and 3, with a
\* skipped row between them
C28_Witness ==
  /\ i = 3 /\ Len(events) = 2 /\ Len(errors) = 1 /\ errors[1].row = 2
  /\ FieldsOf(parsedCsv[1]) = FieldsOf(parsedCsv[3])
  /\ SameResolution(events[1], [value |-> events[2]])

\* C29: no step of generateEvents changes a field of an input row, and the
\* start of an emitted event is still the instant setEventStart returned, after
\* setEventEnd was called with it; this holds for rows emitted and rows skipped.
C29_InputsUnchanged ==
  [][/\ parsedCsv' = parsedCsv
     /\ Len(events') > Len(events)
          => events'[Len(events')].start = StartOf(parsedCsv[i + 1]).value]_vars

\* a batch was processed to its end with a row emitted and a row skipped
C29_Witness == pc = "done" /\ Len(events) >= 1 /\ Len(errors) >= 1

\* hours, minutes and seconds after 00:00:00 of the instant's calendar day
SameDayAt(date, h, m, sec) ==
  [nan |-> FALSE,
   t |-> (date.t \div (24 * 60 * 60)) * (24 * 60 * 60) + h * 60 * 60 + m * 60 + sec]

\* what C30 states for the end on the start's own day
SameDayOutcomeIs(end, start) ==
  IF end.t < start.t
  THEN ~ret.out.ok /\ ret.out.msg = <<MsgExplicitEndPrefix, MsgEndBeforeStart>>
  ELSE ret.out.ok /\ ret.out.value = end /\ FormatDate(ret.out.value) = FormatDate(start)

\* C30: for a timed row with an empty End Date and a valid clock End Time,
\* setEventEnd returns that clock time on the start's own calendar date, and
\* fails with the ordering error when that instant is before start.
C30_ClockOnStartDate ==
  \A ck \in ValidEndClocks :
    (TimedCall /\ call.endDateStr = Empty /\ call.endTimeStr = ck[1])
    => SameDayOutcomeIs(SameDayAt(call.start, ck[2][1], ck[2][2], ck[2][3]), call.start)

\* start 2025-07-15 10:00 with End Time 09:00 and no End Date was rejected as
\* ending before the start
C30_Witness ==
  /\ TimedCall /\ call.endDateStr = Empty /\ call.endTimeStr = Clock(9, 0)
  /\ call.start = NewDate(2025, 6, 15, 10, 0, 0)
  /\ ~ret.out.ok /\ ret.out.msg[Len(ret.out.msg)] = MsgEndBeforeStart

====
